---------------------------- MODULE Spec2Model ----------------------------
(***************************************************************************)
(* Model of the MPU6050 hand-motion classifier:                            *)
(*   src/mpu6050.py         the sensor driver (register decoding,          *)
(*                          calibration, sample aggregation)               *)
(*   src/motion_control.py  the polling loop (smoothing, orientation       *)
(*                          estimate, direction classifier, debounce)      *)
(*                                                                         *)
(* Floating point values are carried as integers in units of 1/Milli       *)
(* (milli-counts, milli-g, millidegrees, millidegrees per second); a       *)
(* division rounds towards minus infinity.  Clock values and dt are in     *)
(* milliseconds, so "rate * dt" is (rate * dt_ms) \div Milli.              *)
(***************************************************************************)
EXTENDS Integers, Sequences, FiniteSets, TLC

\* ------------------------------------------------------------------------
\* Bounds of the model
\* ------------------------------------------------------------------------

\* get_direction is applied to whole degrees in -MaxAngle .. MaxAngle and to
\* the values one millidegree either side of every threshold.
MaxAngle == 26

\* a client of an MPU6050 object passes samples in 0 .. MaxSamples and makes
\* at most MaxCalls calls
MaxSamples == 3
MaxCalls == 3

\* the polling loop passes samples=100 to calibrate; the model runs CalibSamples
\* iterations instead
CalibSamples == 2

\* the polling loop is followed for MaxCycles cycles
MaxCycles == 4

\* ------------------------------------------------------------------------
\* Program constants
\* ------------------------------------------------------------------------

\* milliseconds per second: dt = (current_time - prev_time) / 1000.0
Milli == 1000

LEFT_THRESHOLD == -15
RIGHT_THRESHOLD == 15
TURN_THRESHOLD == 20
FORWARD_THRESHOLD == 15
BACKWARD_THRESHOLD == -15
DEAD_ZONE == 10

Labels ==
  {"STOP", "FORWARD", "BACKWARD", "LEFT", "RIGHT", "ROTATE_LEFT", "ROTATE_RIGHT"}

\* a threshold in degrees, in the unit of the angles (millidegrees)
Deg(t) == t * Milli

abs(v) == IF v < 0 THEN -v ELSE v

\* ------------------------------------------------------------------------
\* motion_control.get_direction
\* ------------------------------------------------------------------------

\* the first if/elif: forward/backward on the Y angle
DirectionY(angle_y) ==
  IF angle_y > Deg(DEAD_ZONE) /\ angle_y > Deg(FORWARD_THRESHOLD) THEN "FORWARD"
  ELSE IF angle_y < -Deg(DEAD_ZONE) /\ angle_y < Deg(BACKWARD_THRESHOLD) THEN "BACKWARD"
  ELSE "STOP"

\* the second if/elif: left/right on the X angle, overriding `direction`
DirectionX(angle_x, direction) ==
  IF angle_x < -Deg(DEAD_ZONE) /\ angle_x < Deg(LEFT_THRESHOLD) THEN "LEFT"
  ELSE IF angle_x > Deg(DEAD_ZONE) /\ angle_x > Deg(RIGHT_THRESHOLD) THEN "RIGHT"
  ELSE direction

\* the third if: turn on the Z angle, overriding `direction`
DirectionZ(angle_z, direction) ==
  IF abs(angle_z) > Deg(DEAD_ZONE) /\ abs(angle_z) > Deg(TURN_THRESHOLD)
  THEN (IF angle_z > 0 THEN "ROTATE_RIGHT" ELSE "ROTATE_LEFT")
  ELSE direction

\* faulty variant: the turn rule is evaluated first, so the X and Y rules override it
get_direction_turn_first(angle_x, angle_y, angle_z) ==
  LET turn == DirectionZ(angle_z, "STOP")
      fb == DirectionY(angle_y)
  IN DirectionX(angle_x, IF fb # "STOP" THEN fb ELSE turn)

\* faulty variant: the comparisons with the thresholds are not strict
get_direction_not_strict(angle_x, angle_y, angle_z) ==
  LET fb == IF angle_y >= Deg(FORWARD_THRESHOLD) THEN "FORWARD"
            ELSE IF angle_y <= Deg(BACKWARD_THRESHOLD) THEN "BACKWARD"
            ELSE "STOP"
      lr == IF angle_x <= Deg(LEFT_THRESHOLD) THEN "LEFT"
            ELSE IF angle_x >= Deg(RIGHT_THRESHOLD) THEN "RIGHT"
            ELSE fb
  IN IF abs(angle_z) >= Deg(TURN_THRESHOLD)
     THEN (IF angle_z > 0 THEN "ROTATE_RIGHT" ELSE "ROTATE_LEFT")
     ELSE lr

\* faulty variant: the X rule is evaluated before the Y rule, so Y overrides X
get_direction_y_over_x(angle_x, angle_y, angle_z) ==
  LET lr == DirectionX(angle_x, "STOP")
      fb == DirectionY(angle_y)
  IN DirectionZ(angle_z, IF fb # "STOP" THEN fb ELSE lr)

get_direction(angle_x, angle_y, angle_z) ==
  DirectionZ(angle_z, DirectionX(angle_x, DirectionY(angle_y)))

\* ------------------------------------------------------------------------
\* MPU6050.read_raw_data
\* ------------------------------------------------------------------------

Byte == 0 .. 255

\* faulty variant: the sign conversion is applied one value too late (value > 32768)
read_raw_data_late_sign(data) ==
  LET value == data[1] * 256 + data[2]
  IN IF value > 32768 THEN value - 65536 ELSE value

\* data is the two bytes readfrom_mem returned, data[1] the first of them;
\* (data[0] << 8) | data[1] of two bytes is data[0] * 256 + data[1]
read_raw_data(data) ==
  LET value == data[1] * 256 + data[2]
  IN IF value > 32767 THEN value - 65536 ELSE value


\* ------------------------------------------------------------------------
\* The sensor: what the bus returns for a two-byte read at a register
\* ------------------------------------------------------------------------

ACCEL_XOUT_H == 59
TEMP_OUT_H == 65
GYRO_XOUT_H == 67

ACCEL_SCALE_MODIFIER_2G == 16384
GYRO_SCALE_MODIFIER_250DEG == 131

Axes == {"x", "y", "z"}

\* offset of an axis' register pair from the X register pair
AxisOffset(axis) == IF axis = "x" THEN 0 ELSE IF axis = "y" THEN 2 ELSE 4

\* A frame is the content of the seven output register pairs at one moment.
MakeFrame(ax, ay, az, tmp, gx, gy, gz) ==
  (ACCEL_XOUT_H :> ax) @@ (ACCEL_XOUT_H + 2 :> ay) @@ (ACCEL_XOUT_H + 4 :> az)
  @@ (TEMP_OUT_H :> tmp)
  @@ (GYRO_XOUT_H :> gx) @@ (GYRO_XOUT_H + 2 :> gy) @@ (GYRO_XOUT_H + 4 :> gz)

\* level and still: 1 g on Z (16384 counts), no rotation
FrameRest ==
  MakeFrame(<<0, 0>>, <<0, 0>>, <<64, 0>>, <<0, 0>>, <<0, 0>>, <<0, 0>>, <<0, 0>>)
\* rolled by -30 degrees (X = -1, Y = -8192, Z = 14189 counts), rolling at
\* -250 deg/s (-32768 counts) about X, turning at 1 deg/s (131 counts) about Y
\* and at 62.5 deg/s (8192 counts) about Z
FrameTwist ==
  MakeFrame(<<255, 255>>, <<224, 0>>, <<55, 109>>, <<1, 84>>,
            <<128, 0>>, <<0, 131>>, <<32, 0>>)

\* what the sensor can hold when it is read
SensorFrames == {FrameRest, FrameTwist}

\* the registers one iteration of calibrate reads, in order
CalibrateRegs ==
  <<ACCEL_XOUT_H, ACCEL_XOUT_H + 2, ACCEL_XOUT_H + 4,
    GYRO_XOUT_H, GYRO_XOUT_H + 2, GYRO_XOUT_H + 4>>

\* the registers one iteration of get_values reads, in order
GetValuesRegs == CalibrateRegs \o <<TEMP_OUT_H>>

\* self.read_raw_data(reg) while the sensor holds `frame`
ReadReg(frame, reg) == read_raw_data(frame[reg])

ZeroOffsets == [a \in Axes |-> 0]

\* ------------------------------------------------------------------------
\* MPU6050.calibrate: the pure parts
\* ------------------------------------------------------------------------

\* faulty variant: gravity is not removed from the Z reading
CalibrateAccelTerm_keep_gravity(frame, axis) ==
  ReadReg(frame, ACCEL_XOUT_H + AxisOffset(axis))

\* what one iteration adds to accel_sum[axis]
CalibrateAccelTerm(frame, axis) ==
  LET raw == ReadReg(frame, ACCEL_XOUT_H + AxisOffset(axis))
  IN IF axis = "z" THEN raw - ACCEL_SCALE_MODIFIER_2G ELSE raw

\* what one iteration adds to gyro_sum[axis]
CalibrateGyroTerm(frame, axis) == ReadReg(frame, GYRO_XOUT_H + AxisOffset(axis))

\* sum / samples, the sum a whole number of counts, the offset in milli-counts
AverageOffset(sum, n) == (sum * Milli) \div n

\* ------------------------------------------------------------------------
\* MPU6050.get_values: the pure parts
\* ------------------------------------------------------------------------

RawKeys == {"GyX", "GyY", "GyZ", "Tmp", "AcX", "AcY", "AcZ"}
ScaledKeys == {"GyX_deg", "GyY_deg", "GyZ_deg", "AcX_g", "AcY_g", "AcZ_g"}

\* values = {"GyX": 0, ..., "AcZ": 0}
InitialValues == [k \in RawKeys |-> 0]

\* what one iteration adds to each accumulator (milli-counts, milli-g,
\* millidegrees per second, millidegrees Celsius)
SampleValues(frame, ao, go) ==
  LET accel(axis) == ReadReg(frame, ACCEL_XOUT_H + AxisOffset(axis)) * Milli - ao[axis]
      gyro(axis) == ReadReg(frame, GYRO_XOUT_H + AxisOffset(axis)) * Milli - go[axis]
      temp == (ReadReg(frame, TEMP_OUT_H) * Milli) \div 340 + 36530
  IN [GyX |-> gyro("x"), GyY |-> gyro("y"), GyZ |-> gyro("z"),
      Tmp |-> temp,
      AcX |-> accel("x"), AcY |-> accel("y"), AcZ |-> accel("z"),
      GyX_deg |-> gyro("x") \div GYRO_SCALE_MODIFIER_250DEG,
      GyY_deg |-> gyro("y") \div GYRO_SCALE_MODIFIER_250DEG,
      GyZ_deg |-> gyro("z") \div GYRO_SCALE_MODIFIER_250DEG,
      AcX_g |-> accel("x") \div ACCEL_SCALE_MODIFIER_2G,
      AcY_g |-> accel("y") \div ACCEL_SCALE_MODIFIER_2G,
      AcZ_g |-> accel("z") \div ACCEL_SCALE_MODIFIER_2G]

\* the accumulators after one more iteration
Accumulate(acc, frame, ao, go) ==
  LET s == SampleValues(frame, ao, go)
      full == IF "GyX_deg" \notin DOMAIN acc
              THEN acc @@ [k \in ScaledKeys |-> 0]
              ELSE acc
  IN [k \in DOMAIN full |-> full[k] + s[k]]

\* for key in values: values[key] /= samples
AverageValues(acc, n) == [k \in DOMAIN acc |-> acc[k] \div n]

\* ------------------------------------------------------------------------
\* motion_control: filter parameters and the pure parts of the loop
\* ------------------------------------------------------------------------

\* alpha = 0.8, in tenths
alpha == 8
AlphaScale == 10
\* beta = 0.95, in hundredths
beta == 95
BetaScale == 100

\* alpha * prev_value + (1 - alpha) * new_value
low_pass_filter(new_value, prev_value, a) ==
  (a * prev_value + (AlphaScale - a) * new_value) \div AlphaScale

NoData == [k \in {} |-> 0]

\* if prev_data: for key in data: if key in prev_data: data[key] = low_pass_filter(...)
Smooth(d, prev) ==
  IF DOMAIN prev # {}
  THEN [key \in DOMAIN d |->
          IF key \in DOMAIN prev THEN low_pass_filter(d[key], prev[key], alpha)
          ELSE d[key]]
  ELSE d

\* tan(k degrees) * 1000 for k = 0 .. 89, at index k + 1
TanMilli ==
  <<
     0, 17, 35, 52, 70, 87, 105, 123, 141, 158,
     176, 194, 213, 231, 249, 268, 287, 306, 325, 344,
     364, 384, 404, 424, 445, 466, 488, 510, 532, 554,
     577, 601, 625, 649, 675, 700, 727, 754, 781, 810,
     839, 869, 900, 933, 966, 1000, 1036, 1072, 1111, 1150,
     1192, 1235, 1280, 1327, 1376, 1428, 1483, 1540, 1600, 1664,
     1732, 1804, 1881, 1963, 2050, 2145, 2246, 2356, 2475, 2605,
     2747, 2904, 3078, 3271, 3487, 3732, 4011, 4331, 4705, 5145,
     5671, 6314, 7115, 8144, 9514, 11430, 14301, 19081, 28636, 57290
  >>

\* atan(num / den) in whole degrees, rounded down, for num >= 0 and den > 0
AtanDeg(num, den) ==
  CHOOSE k \in 0 .. 89 :
    /\ TanMilli[k + 1] * den <= num * Milli
    /\ (k = 89 \/ TanMilli[k + 2] * den > num * Milli)

\* math.atan2(y, x) * 180 / math.pi, in whole degrees
atan2_deg(y, x) ==
  IF x > 0 THEN (IF y >= 0 THEN AtanDeg(y, x) ELSE -AtanDeg(-y, x))
  ELSE IF x < 0 THEN (IF y >= 0 THEN 180 - AtanDeg(y, -x) ELSE AtanDeg(-y, -x) - 180)
  ELSE IF y > 0 THEN 90
  ELSE IF y < 0 THEN -90
  ELSE 0

RECURSIVE SqrtBetween(_, _, _)
\* the largest r in lo .. hi with r * r <= n, given lo * lo <= n
SqrtBetween(n, lo, hi) ==
  IF lo >= hi THEN lo
  ELSE LET mid == (lo + hi + 1) \div 2
       IN IF mid * mid <= n THEN SqrtBetween(n, mid, hi)
          ELSE SqrtBetween(n, lo, mid - 1)

\* math.sqrt(n), rounded down (n is at most 2 * 8000^2 in milli-g squared)
sqrt(n) == SqrtBetween(n, 0, 16000)

\* accel_angle_x and accel_angle_y, in millidegrees
AccelAngleX(d) == atan2_deg(d.AcY_g, d.AcZ_g) * Milli
AccelAngleY(d) ==
  atan2_deg(-d.AcX_g, sqrt(d.AcY_g * d.AcY_g + d.AcZ_g * d.AcZ_g)) * Milli

\* beta * (prev + rate * dt) + (1 - beta) * accel_angle
Blend(prev, rate, dt_ms, accel_angle) ==
  (beta * (prev + (rate * dt_ms) \div Milli) + (BetaScale - beta) * accel_angle)
    \div BetaScale

\* the complementary filter: angle_x, angle_y, angle_z from prev_angles
UpdateAngles(prev, d, dt_ms) ==
  [x |-> Blend(prev.x, d.GyX_deg, dt_ms, AccelAngleX(d)),
   y |-> Blend(prev.y, d.GyY_deg, dt_ms, AccelAngleY(d)),
   z |-> prev.z + (d.GyZ_deg * dt_ms) \div Milli]

\* faulty variant: the count is not reset when the direction changes
NextDirectionCount_no_reset(dir, prev_dir, count) == count + 1

\* if direction == prev_direction: direction_count += 1 else: direction_count = 0
NextDirectionCount(dir, prev_dir, count) ==
  IF dir = prev_dir THEN count + 1 ELSE 0

\* if direction_count >= 2: print(...)
Displayed(count) == count >= 2

\* ------------------------------------------------------------------------
\* State
\* ------------------------------------------------------------------------

\* time.sleep(delay) with delay = 0.01, and time.sleep(0.1), in milliseconds
DelayMs == 10
RefreshMs == 100
\* mpu.get_values(samples=5, delay=0.01)
LoopSamples == 5

VARIABLES
  \* the MPU6050 object
  accel_offsets, gyro_offsets,
  \* the running call of calibrate or get_values
  mpu_pc,          \* "idle", "calibrate" or "get_values"
  samples,         \* the samples argument (0 when no call is running)
  i,               \* iterations of the for loop done (0 when no call is running)
  accel_sum, gyro_sum,
  values,          \* the accumulators of get_values
  last_op,         \* the method called last: "none", "calibrate", "get_values"
  \* how the last call ended
  outcome,         \* "none", "calibrated", "values", "OSError", "ZeroDivisionError"
  fail_reg,        \* the register whose read raised OSError, 0 when none did
  data,            \* the reading the last get_values returned
  \* history
  calibrated,      \* a call of calibrate has completed
  saved_offsets,   \* the offsets when the running or last call began
  frames_read,     \* the frames the running or last calibrate has read
  calls,           \* calls made so far
  \* motion_control
  pc,              \* where the caller is
  now,             \* time.ticks_ms(); the runs followed are far shorter than its period
  prev_time, prev_angles,
  prev_data, prev_direction, direction_count,
  direction,       \* what get_direction returned in this cycle
  last_direction,  \* what get_direction returned in the cycle before
  printed,         \* the direction this cycle printed, "NONE" when it printed none
  dt,              \* this cycle's dt, in milliseconds
  cycles,          \* cycles begun
  loop_entry,      \* the clock when the while loop was entered
  \* one call of read_raw_data
  reg_bytes,       \* the two bytes the register pair holds
  value            \* <<the value returned>>, << >> before the call

mpu_vars == <<accel_offsets, gyro_offsets, mpu_pc, last_op, samples, i, accel_sum, gyro_sum,
              values, outcome, fail_reg, data, calibrated, saved_offsets,
              frames_read, calls>>
loop_vars == <<prev_time, prev_angles, prev_data, prev_direction, direction_count,
               direction, last_direction, printed, dt, cycles, loop_entry>>
raw_vars == <<reg_bytes, value>>
vars == <<mpu_vars, loop_vars, raw_vars, pc, now>>

\* MPU6050.__init__: the offsets start at 0; no call is running
InitMpu ==
  /\ accel_offsets = ZeroOffsets
  /\ gyro_offsets = ZeroOffsets
  /\ mpu_pc = "idle"
  /\ last_op = "none"
  /\ samples = 0
  /\ i = 0
  /\ accel_sum = ZeroOffsets
  /\ gyro_sum = ZeroOffsets
  /\ values = InitialValues
  /\ outcome = "none"
  /\ fail_reg = 0
  /\ data = NoData
  /\ calibrated = FALSE
  /\ saved_offsets = <<ZeroOffsets, ZeroOffsets>>
  /\ frames_read = {}
  /\ calls = 0

\* the module level of motion_control and the locals of start_direction_display
InitLoop ==
  /\ now = 0
  /\ prev_time = now
  /\ prev_angles = [x |-> 0, y |-> 0, z |-> 0]
  /\ prev_data = NoData
  /\ prev_direction = "STOP"
  /\ direction_count = 0
  /\ direction = "NONE"
  /\ last_direction = "NONE"
  /\ printed = "NONE"
  /\ dt = 0
  /\ cycles = 0
  /\ loop_entry = 0

InitRaw ==
  /\ reg_bytes = <<0, 0>>
  /\ value = << >>

\* ------------------------------------------------------------------------
\* MPU6050.calibrate
\* ------------------------------------------------------------------------

\* the call: accel_sum and gyro_sum start at 0
CallCalibrate(n) ==
  /\ mpu_pc = "idle"
  /\ mpu_pc' = "calibrate"
  /\ last_op' = "calibrate"
  /\ samples' = n
  /\ i' = 0
  /\ accel_sum' = ZeroOffsets
  /\ gyro_sum' = ZeroOffsets
  /\ outcome' = "none"
  /\ fail_reg' = 0
  /\ saved_offsets' = <<accel_offsets, gyro_offsets>>
  /\ frames_read' = {}
  /\ calls' = calls + 1
  /\ UNCHANGED <<accel_offsets, gyro_offsets, values, data, calibrated>>

\* one iteration of the for loop: six reads, the sums, the sleep
CalibrateIter ==
  /\ mpu_pc = "calibrate"
  /\ i < samples
  /\ \E frame \in SensorFrames :
       /\ accel_sum' = [a \in Axes |-> accel_sum[a] + CalibrateAccelTerm(frame, a)]
       /\ gyro_sum' = [a \in Axes |-> gyro_sum[a] + CalibrateGyroTerm(frame, a)]
       /\ frames_read' = frames_read \cup {frame}
  /\ i' = i + 1
  /\ now' = now + DelayMs
  /\ UNCHANGED <<accel_offsets, gyro_offsets, mpu_pc, last_op, samples, values,
                 outcome, fail_reg, data, calibrated, saved_offsets, calls>>
  /\ UNCHANGED <<loop_vars, raw_vars, pc>>

\* faulty variant: the offsets are written from the iterations done before the failure
OffsetsOnFailure_partial(offsets, sum, done) ==
  IF done = 0 THEN offsets ELSE [a \in Axes |-> AverageOffset(sum[a], done)]

\* the offsets when a read raised after `done` iterations: the exception leaves
\* the for loop, and the assignments that follow the loop are not reached
OffsetsOnFailure(offsets, sum, done) == offsets

\* a read of one iteration raises OSError: the call ends, its sums are dropped
CalibrateFail ==
  /\ mpu_pc = "calibrate"
  /\ i < samples
  /\ \E k \in 1 .. Len(CalibrateRegs) : fail_reg' = CalibrateRegs[k]
  /\ mpu_pc' = "idle"
  /\ outcome' = "OSError"
  /\ accel_offsets' = OffsetsOnFailure(accel_offsets, accel_sum, i)
  /\ gyro_offsets' = OffsetsOnFailure(gyro_offsets, gyro_sum, i)
  /\ accel_sum' = ZeroOffsets
  /\ gyro_sum' = ZeroOffsets
  /\ samples' = 0
  /\ i' = 0
  /\ UNCHANGED <<last_op, values, data, calibrated, saved_offsets, frames_read,
                 calls>>
  /\ UNCHANGED <<loop_vars, raw_vars, pc, now>>

\* the offsets after the for loop: the six divisions by samples
OffsetsAfterLoop(sum, n) == [a \in Axes |-> AverageOffset(sum[a], n)]

\* after the loop: the offsets, or ZeroDivisionError when samples is 0
CalibrateFinish ==
  /\ mpu_pc = "calibrate"
  /\ i = samples
  /\ mpu_pc' = "idle"
  /\ accel_sum' = ZeroOffsets
  /\ gyro_sum' = ZeroOffsets
  /\ IF samples = 0
     THEN /\ outcome' = "ZeroDivisionError"
          /\ UNCHANGED <<accel_offsets, gyro_offsets, calibrated>>
     ELSE /\ accel_offsets' = OffsetsAfterLoop(accel_sum, samples)
          /\ gyro_offsets' = OffsetsAfterLoop(gyro_sum, samples)
          /\ outcome' = "calibrated"
          /\ calibrated' = TRUE
  /\ samples' = 0
  /\ i' = 0
  /\ UNCHANGED <<last_op, values, fail_reg, data, saved_offsets, frames_read, calls>>
  /\ UNCHANGED <<loop_vars, raw_vars, pc, now>>

\* ------------------------------------------------------------------------
\* MPU6050.get_values
\* ------------------------------------------------------------------------

\* the call: the seven raw accumulators start at 0
CallGetValues(n) ==
  /\ mpu_pc = "idle"
  /\ mpu_pc' = "get_values"
  /\ last_op' = "get_values"
  /\ samples' = n
  /\ i' = 0
  /\ values' = InitialValues
  /\ outcome' = "none"
  /\ fail_reg' = 0
  /\ saved_offsets' = <<accel_offsets, gyro_offsets>>
  /\ calls' = calls + 1
  /\ UNCHANGED <<accel_offsets, gyro_offsets, accel_sum, gyro_sum, data, calibrated,
                 frames_read>>

\* one iteration of the for loop: seven reads, the accumulators, the sleep
GetValuesIter ==
  /\ mpu_pc = "get_values"
  /\ i < samples
  /\ \E frame \in SensorFrames :
       values' = Accumulate(values, frame, accel_offsets, gyro_offsets)
  /\ i' = i + 1
  /\ now' = now + DelayMs
  /\ UNCHANGED <<accel_offsets, gyro_offsets, mpu_pc, last_op, samples, accel_sum,
                 gyro_sum, outcome, fail_reg, data, calibrated, saved_offsets,
                 frames_read, calls>>
  /\ UNCHANGED <<loop_vars, raw_vars, pc>>

\* a read of one iteration raises OSError: the call ends and returns nothing
GetValuesFail ==
  /\ mpu_pc = "get_values"
  /\ i < samples
  /\ \E k \in 1 .. Len(GetValuesRegs) : fail_reg' = GetValuesRegs[k]
  /\ mpu_pc' = "idle"
  /\ outcome' = "OSError"
  /\ values' = InitialValues
  /\ samples' = 0
  /\ i' = 0
  /\ UNCHANGED <<accel_offsets, gyro_offsets, last_op, accel_sum, gyro_sum, data,
                 calibrated, saved_offsets, frames_read, calls>>
  /\ UNCHANGED <<loop_vars, raw_vars, pc, now>>

\* after the loop: the averages, or ZeroDivisionError when samples is 0
GetValuesFinish ==
  /\ mpu_pc = "get_values"
  /\ i = samples
  /\ mpu_pc' = "idle"
  /\ values' = InitialValues
  /\ IF samples = 0
     THEN /\ outcome' = "ZeroDivisionError"
          /\ UNCHANGED data
     ELSE /\ outcome' = "values"
          /\ data' = AverageValues(values, samples)
  /\ samples' = 0
  /\ i' = 0
  /\ UNCHANGED <<accel_offsets, gyro_offsets, last_op, accel_sum, gyro_sum, fail_reg,
                 calibrated, saved_offsets, frames_read, calls>>
  /\ UNCHANGED <<loop_vars, raw_vars, pc, now>>

\* ------------------------------------------------------------------------
\* A client of the MPU6050 object: any calls, in any order
\* ------------------------------------------------------------------------

ClientCalibrate ==
  /\ pc = "client"
  /\ calls < MaxCalls
  /\ \E n \in 0 .. MaxSamples : CallCalibrate(n)
  /\ UNCHANGED <<loop_vars, raw_vars, pc, now>>

ClientGetValues ==
  /\ pc = "client"
  /\ calls < MaxCalls
  /\ \E n \in 0 .. MaxSamples : CallGetValues(n)
  /\ UNCHANGED <<loop_vars, raw_vars, pc, now>>

InitObj == InitMpu /\ InitLoop /\ InitRaw /\ pc = "client"

NextObj ==
  \/ ClientCalibrate
  \/ CalibrateIter
  \/ CalibrateFail
  \/ CalibrateFinish
  \/ ClientGetValues
  \/ GetValuesIter
  \/ GetValuesFail
  \/ GetValuesFinish

SpecObj == InitObj /\ [][NextObj]_vars

\* ------------------------------------------------------------------------
\* motion_control.start_direction_display
\* ------------------------------------------------------------------------

\* the locals, the first print and the call mpu.calibrate(samples=100)
StartDisplay ==
  /\ pc = "start"
  /\ prev_data' = NoData
  /\ prev_direction' = "STOP"
  /\ direction_count' = 0
  /\ CallCalibrate(CalibSamples)
  /\ pc' = "calibrating"
  /\ UNCHANGED <<prev_time, prev_angles, direction, last_direction, printed, dt,
                 cycles, loop_entry>>
  /\ UNCHANGED <<raw_vars, now>>

\* the top of the while loop: the clock, dt, and the call
\* mpu.get_values(samples=5, delay=0.01)
CycleStart ==
  /\ mpu_pc = "idle"
  /\ \/ pc = "calibrating" /\ outcome = "calibrated"
     \/ pc = "sleeping"
  /\ cycles < MaxCycles
  /\ LET current_time == now
     IN /\ dt' = current_time - prev_time
        /\ prev_time' = current_time
  /\ CallGetValues(LoopSamples)
  /\ pc' = "reading"
  /\ cycles' = cycles + 1
  /\ loop_entry' = IF pc = "calibrating" THEN now ELSE loop_entry
  /\ UNCHANGED <<prev_angles, prev_data, prev_direction, direction_count, direction,
                 last_direction, printed>>
  /\ UNCHANGED <<raw_vars, now>>

\* the rest of the cycle, from the low-pass filter to time.sleep(0.1)
CycleFinish ==
  /\ pc = "reading"
  /\ mpu_pc = "idle"
  /\ outcome = "values"
  /\ LET smoothed == Smooth(data, prev_data)
     IN
     /\ IF "AcX_g" \in DOMAIN smoothed
        THEN LET angles == UpdateAngles(prev_angles, smoothed, dt)
                 dir == get_direction(angles.x, angles.y, angles.z)
                 count == NextDirectionCount(dir, prev_direction, direction_count)
             IN /\ prev_angles' = angles
                /\ direction' = dir
                /\ last_direction' = direction
                /\ direction_count' = count
                /\ prev_direction' = dir
                /\ printed' = IF Displayed(count) THEN dir ELSE "NONE"
                /\ prev_data' = smoothed
        ELSE UNCHANGED <<prev_angles, direction, last_direction, direction_count,
                         prev_direction, printed, prev_data>>
     /\ data' = smoothed
  /\ now' = now + RefreshMs
  /\ pc' = "sleeping"
  /\ UNCHANGED <<prev_time, dt, cycles, loop_entry>>
  /\ UNCHANGED <<accel_offsets, gyro_offsets, mpu_pc, last_op, samples, i, accel_sum,
                 gyro_sum, values, outcome, fail_reg, calibrated, saved_offsets,
                 frames_read, calls>>
  /\ UNCHANGED raw_vars

\* an exception of calibrate or get_values leaves start_direction_display: the
\* except clause of the module catches KeyboardInterrupt only
Crash ==
  /\ pc \in {"calibrating", "reading"}
  /\ mpu_pc = "idle"
  /\ outcome \in {"OSError", "ZeroDivisionError"}
  /\ pc' = "crashed"
  /\ UNCHANGED <<mpu_vars, loop_vars, raw_vars, now>>

Init == InitMpu /\ InitLoop /\ InitRaw /\ pc = "start"

Next ==
  \/ StartDisplay
  \/ CalibrateIter
  \/ CalibrateFail
  \/ CalibrateFinish
  \/ CycleStart
  \/ GetValuesIter
  \/ GetValuesFail
  \/ GetValuesFinish
  \/ CycleFinish
  \/ Crash

Spec == Init /\ [][Next]_vars

\* ------------------------------------------------------------------------
\* get_direction applied to one triple of angles
\* ------------------------------------------------------------------------

Thresholds ==
  {LEFT_THRESHOLD, RIGHT_THRESHOLD, TURN_THRESHOLD, -TURN_THRESHOLD,
   FORWARD_THRESHOLD, BACKWARD_THRESHOLD, DEAD_ZONE, -DEAD_ZONE}

\* whole degrees, and the millidegree on either side of every threshold
DirAngles ==
  {Deg(d) : d \in -MaxAngle .. MaxAngle}
    \cup {Deg(t) + e : t \in Thresholds, e \in {-1, 1}}

InitDir ==
  /\ InitMpu
  /\ InitRaw
  /\ now = 0
  /\ prev_time = 0
  /\ prev_angles \in [x : DirAngles, y : DirAngles, z : DirAngles]
  /\ prev_data = NoData
  /\ prev_direction = "STOP"
  /\ direction_count = 0
  /\ direction = "NONE"
  /\ last_direction = "NONE"
  /\ printed = "NONE"
  /\ dt = 0
  /\ cycles = 0
  /\ loop_entry = 0
  /\ pc = "classify"

\* direction = get_direction(angle_x, angle_y, angle_z)
Classify ==
  /\ pc = "classify"
  /\ direction = "NONE"
  /\ direction' = get_direction(prev_angles.x, prev_angles.y, prev_angles.z)
  /\ UNCHANGED <<prev_time, prev_angles, prev_data, prev_direction, direction_count,
                 last_direction, printed, dt, cycles, loop_entry>>
  /\ UNCHANGED <<mpu_vars, raw_vars, pc, now>>

NextDir == Classify

SpecDir == InitDir /\ [][NextDir]_vars

\* ------------------------------------------------------------------------
\* read_raw_data applied to one register pair
\* ------------------------------------------------------------------------

InitRead ==
  /\ InitMpu
  /\ InitLoop
  /\ reg_bytes \in Byte \X Byte
  /\ value = << >>
  /\ pc = "decode"

\* value = self.read_raw_data(reg), the bus returning the register pair
ReadRawData ==
  /\ pc = "decode"
  /\ value = << >>
  /\ value' = <<read_raw_data(reg_bytes)>>
  /\ UNCHANGED <<mpu_vars, loop_vars, reg_bytes, pc, now>>

NextRead == ReadRawData

SpecRead == InitRead /\ [][NextRead]_vars

\* ------------------------------------------------------------------------
\* Properties
\* ------------------------------------------------------------------------

\* a cycle of the polling loop has run to its time.sleep(0.1)
CycleDone == pc = "sleeping"

\* C1: whenever get_direction produces the same label on two consecutive
\* cycles, that label is printed on the second of them, also when it differs
\* from the label held before.
C1_RepeatedLabelIsPrinted ==
  (CycleDone /\ cycles >= 2 /\ direction = last_direction) => printed = direction

\* the triple of angles get_direction was applied to, once it has returned
Classified == pc = "classify" /\ direction # "NONE"

\* C2: get_direction returns one of the seven labels for every triple, and
\* whenever |angle_z| > TURN_THRESHOLD the label is ROTATE_RIGHT for a positive
\* angle_z and ROTATE_LEFT otherwise, whatever angle_x and angle_y are.
C2_TotalAndYawWins ==
  Classified =>
    /\ direction \in Labels
    /\ prev_angles.z > Deg(TURN_THRESHOLD) => direction = "ROTATE_RIGHT"
    /\ prev_angles.z < -Deg(TURN_THRESHOLD) => direction = "ROTATE_LEFT"

C2_Witness ==
  /\ Classified
  /\ prev_angles = [x |-> Deg(-20), y |-> Deg(20), z |-> Deg(25)]
  /\ direction = "ROTATE_RIGHT"

\* C3: get_values never returns a reading before a call of calibrate has
\* completed, whatever the sequence of calls on the MPU6050 object.
C3_NoReadingBeforeCalibration ==
  (last_op = "get_values" /\ outcome = "values") => calibrated

\* C4: a label is printed in a cycle only if get_direction produced that label
\* in that cycle and in the cycle immediately before it.
C4_PrintedOnlyAfterRepeat ==
  printed # "NONE" =>
    /\ cycles >= 2
    /\ printed = direction
    /\ last_direction = direction

C4_Witness == CycleDone /\ printed = "LEFT" /\ direction_count = 2

\* the two bytes of the 16-bit two's complement of v, the high byte first
BigEndianPair(v) ==
  LET u == IF v < 0 THEN v + 65536 ELSE v
  IN <<u \div 256, u % 256>>

\* C5: read_raw_data maps every register pair into -32768 .. 32767, the pair
\* it decodes is the big-endian two's complement of the value it returns (so
\* distinct pairs decode to distinct values), and decoding the encoding of that
\* value gives the value back; FF FF is -1, 7F FF is 32767, 80 00 is -32768.
C5_DecodeIsBijection ==
  value # << >> =>
    LET v == value[1]
    IN /\ v \in -32768 .. 32767
       /\ BigEndianPair(v) = reg_bytes
       /\ read_raw_data(BigEndianPair(v)) = v
       /\ reg_bytes = <<255, 255>> => v = -1
       /\ reg_bytes = <<127, 255>> => v = 32767
       /\ reg_bytes = <<128, 0>> => v = -32768

C5_Witness == reg_bytes = <<128, 0>> /\ value = <<-32768>>

\* C6: when a bus read of calibrate fails, at any iteration and any register,
\* the call ends in error and the six offsets are those the object had when
\* calibrate was called.
C6_FailedCalibrateKeepsOffsets ==
  (last_op = "calibrate" /\ outcome = "OSError") =>
    /\ mpu_pc = "idle"
    /\ <<accel_offsets, gyro_offsets>> = saved_offsets

\* a second calibrate fails at its last read, after a whole iteration, on an
\* object whose first calibrate left offsets other than 0
C6_Witness ==
  /\ last_op = "calibrate"
  /\ outcome = "OSError"
  /\ fail_reg = GYRO_XOUT_H + 4
  /\ frames_read # {}
  /\ calibrated
  /\ accel_offsets # ZeroOffsets

\* C7: the dt of every cycle, the first included, covers no time before the
\* while loop was entered: the span it measures, which ends at the cycle's
\* clock sample, begins at the previous cycle's sample, not at module load.
C7_DtCoversLoopTimeOnly ==
  pc = "reading" => prev_time - dt >= loop_entry

\* the values one register pair took in the frames calibrate read
ValuesRead(reg) == {ReadReg(frame, reg) : frame \in frames_read}

\* C8: when every read of an axis during calibrate returned the same value v,
\* the offset of that axis is v, and v - 16384 for the accelerometer's Z axis,
\* whatever the number of samples.
C8_ConstantInputOffset ==
  (last_op = "calibrate" /\ outcome = "calibrated") =>
    \A a \in Axes :
      /\ \A v \in ValuesRead(ACCEL_XOUT_H + AxisOffset(a)) :
           ValuesRead(ACCEL_XOUT_H + AxisOffset(a)) = {v} =>
             accel_offsets[a] = (IF a = "z" THEN v - 16384 ELSE v) * Milli
      /\ \A v \in ValuesRead(GYRO_XOUT_H + AxisOffset(a)) :
           ValuesRead(GYRO_XOUT_H + AxisOffset(a)) = {v} =>
             gyro_offsets[a] = v * Milli

\* calibrate(samples=2) read the same frame twice
C8_Witness ==
  /\ last_op = "calibrate"
  /\ outcome = "calibrated"
  /\ calls = 1
  /\ now = 2 * DelayMs
  /\ frames_read = {FrameTwist}
  /\ accel_offsets = [x |-> -1000, y |-> -8192000, z |-> -2195000]
  /\ gyro_offsets = [x |-> -32768000, y |-> 131000, z |-> 8192000]

\* C9: an angle exactly at its threshold does not trigger that direction, and
\* with the other two angles at 0 the result is STOP.
C9_StrictThresholds ==
  Classified =>
    /\ prev_angles.y = Deg(FORWARD_THRESHOLD) => direction # "FORWARD"
    /\ prev_angles.y = Deg(BACKWARD_THRESHOLD) => direction # "BACKWARD"
    /\ prev_angles.x = Deg(LEFT_THRESHOLD) => direction # "LEFT"
    /\ prev_angles.x = Deg(RIGHT_THRESHOLD) => direction # "RIGHT"
    /\ abs(prev_angles.z) = Deg(TURN_THRESHOLD) =>
         direction \notin {"ROTATE_LEFT", "ROTATE_RIGHT"}
    /\ \A t \in {15, -15} :
         /\ prev_angles = [x |-> 0, y |-> Deg(t), z |-> 0] => direction = "STOP"
         /\ prev_angles = [x |-> Deg(t), y |-> 0, z |-> 0] => direction = "STOP"
    /\ \A t \in {20, -20} :
         prev_angles = [x |-> 0, y |-> 0, z |-> Deg(t)] => direction = "STOP"

C9_Witness ==
  /\ Classified
  /\ prev_angles = [x |-> 0, y |-> Deg(15), z |-> 0]
  /\ direction = "STOP"

\* C10: with |angle_z| <= 20, angle_x < -15 gives LEFT and angle_x > 15 gives
\* RIGHT for every angle_y; FORWARD and BACKWARD are returned only for
\* -15 <= angle_x <= 15 (FORWARD for angle_y > 15, BACKWARD for angle_y < -15);
\* STOP is returned exactly when no rule fires.
C10_XOverridesY ==
  Classified =>
    LET ax == prev_angles.x
        ay == prev_angles.y
        az == prev_angles.z
    IN /\ abs(az) <= Deg(20) =>
            /\ ax < Deg(-15) => direction = "LEFT"
            /\ ax > Deg(15) => direction = "RIGHT"
            /\ direction = "FORWARD" <=> (ay > Deg(15) /\ abs(ax) <= Deg(15))
            /\ direction = "BACKWARD" <=> (ay < Deg(-15) /\ abs(ax) <= Deg(15))
       /\ direction = "STOP" <=>
            (abs(az) <= Deg(20) /\ abs(ax) <= Deg(15) /\ abs(ay) <= Deg(15))

C10_Witness ==
  /\ Classified
  /\ prev_angles = [x |-> Deg(-20), y |-> Deg(20), z |-> Deg(20)]
  /\ direction = "LEFT"

=============================================================================
